---- MODULE Spec2Model ----
(***************************************************************************)
(* Model of src/_meteor/service/_featureservice.py: the FeatureService     *)
(* descriptor (metadata load, layer/table discovery and caching, refresh)  *)
(* and createReplica with its status polling loop.                         *)
(*                                                                         *)
(* Python values are encoded as follows.  None is the empty tuple and a    *)
(* present value v is the one-element tuple <<v>> (Some(v)); a JSON object *)
(* is a function from its keys to its values; a list is a sequence.  The   *)
(* transport collaborator (self._con) is the environment: every response   *)
(* is drawn from a finite set of JSON documents.                           *)
(***************************************************************************)
EXTENDS Integers, Sequences, FiniteSets, TLC

VARIABLES
    _json_dict,   \* FeatureService._json_dict
    _layers,      \* FeatureService._layers
    _tables,      \* FeatureService._tables
    attrs,        \* the instance attributes made by setattr in __init
    op,           \* the operation called last
    sent,         \* the requests that call has sent, in order
    ret,          \* what it returned
    exc,          \* the exception it raised, "none" if it returned
    pc,           \* where createReplica stands: idle, first_status, loop_status
    args,         \* the arguments of the createReplica call
    exportJob,    \* createReplica's local exportJob
    status,       \* createReplica's local status
    statusLog,    \* the status values the job has answered in this call
    jobSettled,   \* the server-side job has reached a terminal state
    result,       \* the decoded response the call ended with (createReplica's
                  \* res after line 385 or 395, the response of a one-request
                  \* operation)
    layerAttrs,   \* the attributes set on the FeatureLayer object
    threads       \* the callers sharing the descriptor: for each its
                  \* position in the method it runs, its locals, and what
                  \* its call returned or raised

vars == <<_json_dict, _layers, _tables, attrs, op, sent, ret, exc,
          pc, args, exportJob, status, statusLog, jobSettled, result,
          layerAttrs, threads>>

descVars == <<_json_dict, _layers, _tables, attrs>>
pollVars == <<pc, args, exportJob, status, statusLog, jobSettled>>

\* ---------------------------------------------------------------- bounds
\* longest `layers` / `tables` array the server returns
MaxEntries == 2
\* most non-terminal answers the job's status endpoint gives in one call
MaxRunning == 2

\* ------------------------------------------------------- value encodings
None == <<>>
Some(v) == <<v>>
Get(o) == o[1]

EmptyMap == [k \in {} |-> TRUE]

\* d2 merged over d1, as dict.update(d2) does
Update(d1, d2) == d2 @@ d1

\* self._url of the descriptor
BaseUrl == "http://host/FeatureServer"

SeqsUpTo(S, n) == UNION {[1..k -> S] : k \in 0..n}

\* ------------------------------------------------- the server's metadata
LayerIds == {0, 1}
TableIds == {2}

Entry(i) == [id |-> i]

OptKey(k, vals) == {EmptyMap} \cup {k :> v : v \in vals}

\* "capabilities" is a comma separated string; it is held as its tokens
\* JSON documents the service url may answer with: the child arrays vary,
\* the capability flags are both absent or both present
Docs ==
    {l @@ t @@ f :
        l \in OptKey("layers", SeqsUpTo({Entry(i) : i \in LayerIds}, MaxEntries)),
        t \in OptKey("tables", SeqsUpTo({Entry(i) : i \in TableIds}, 1)),
        f \in {EmptyMap, [syncEnabled |-> FALSE, capabilities |-> <<"Query">>]}}

\* JSON documents in which the capability flags vary and the child arrays
\* are absent or hold one layer
FlagDocs ==
    {l @@ f :
        l \in OptKey("layers", {<<Entry(0)>>}),
        f \in {EmptyMap,
               [syncEnabled |-> FALSE, capabilities |-> <<"Query">>],
               [syncEnabled |-> FALSE, capabilities |-> <<"Query", "Extract">>],
               [syncEnabled |-> TRUE, capabilities |-> <<"Query">>]}}

\* the transport collaborator raising instead of answering
TransportError == [transportError |-> TRUE]
\* stands for the answer of a request that is not sent
NoRequest == [noRequest |-> TRUE]

\* the answers the metadata GET can get, when the operation needs one
Answers(needed, D) == IF needed THEN D \cup {TransportError} ELSE {NoRequest}

\* ------------------------------------------------------------- requests
MetadataGet == [method |-> "GET", url |-> BaseUrl, params |-> [f |-> "json"]]

\* -------------------------------------------------- FeatureService state
\* names bound to properties without a setter in the class body (lines 48,
\* 78, 85, 228): setattr(self, name, v) raises AttributeError for them
PropertyNames == {"uploads", "layers", "tables", "replicas"}

Self == [_json_dict |-> _json_dict, _layers |-> _layers,
         _tables |-> _tables, attrs |-> attrs]

\* for k in S: setattr(self, k, doc[k])
SetAttrs(a, doc, S) ==
    [k \in (DOMAIN a) \cup S |-> IF k \in S THEN doc[k] ELSE a[k]]

\* the children appended by one pass of the loops of _load_layers
Children(json_dict, key) ==
    IF key \in DOMAIN json_dict
    THEN [i \in 1..Len(json_dict[key]) |->
              BaseUrl \o "/" \o ToString(json_dict[key][i].id)]
    ELSE <<>>

RECURSIVE _load_layers(_, _, _)

\* FeatureService.__init(connection): resp is the answer of the metadata GET,
\* S the keys the setattr loop reaches before it meets a read-only property
\* (all keys when the document has none; dict order is arbitrary)
__init(self, resp, S) ==
    IF resp = TransportError
    THEN [self |-> self, exc |-> "TransportError", sent |-> <<MetadataGet>>]
    ELSE LET s1 == [self EXCEPT !._json_dict = Some(resp)]
         IN  IF (DOMAIN resp) \cap PropertyNames # {}
             THEN [self |-> [s1 EXCEPT !.attrs = SetAttrs(@, resp, S)],
                   exc |-> "AttributeError", sent |-> <<MetadataGet>>]
             ELSE LET s2 == [s1 EXCEPT !.attrs = SetAttrs(@, resp, DOMAIN resp)]
                      r  == _load_layers(s2, resp, S)
                  IN  [self |-> r.self, exc |-> r.exc,
                       sent |-> <<MetadataGet>> \o r.sent]

\* FeatureService._load_layers()
_load_layers(self, resp, S) ==
    LET s0 == [self EXCEPT !._layers = Some(<<>>), !._tables = Some(<<>>)]
        r  == IF s0._json_dict = None
              THEN __init(s0, resp, S)
              ELSE [self |-> s0, exc |-> "none", sent |-> <<>>]
    IN  IF r.exc # "none"
        THEN r
        ELSE LET json_dict == Get(r.self._json_dict)
             IN  [self |-> [r.self EXCEPT
                       !._layers = Some(Get(@) \o Children(json_dict, "layers")),
                       !._tables = Some(Get(@) \o Children(json_dict, "tables"))],
                  exc |-> "none", sent |-> r.sent]

\* the choices of S that the setattr loop of __init can produce for resp
SetattrPrefixes(resp) ==
    IF resp \in {TransportError, NoRequest} THEN {{}}
    ELSE IF (DOMAIN resp) \cap PropertyNames # {}
         THEN SUBSET ((DOMAIN resp) \ PropertyNames)
         ELSE {DOMAIN resp}

Idle == pc = "idle"

Commit(r) ==
    /\ _json_dict' = r.self._json_dict
    /\ _layers' = r.self._layers
    /\ _tables' = r.self._tables
    /\ attrs' = r.self.attrs
    /\ sent' = r.sent
    /\ exc' = r.exc

\* load: a call of __init(self._con)
Load(D) ==
    /\ Idle
    /\ \E resp \in Answers(TRUE, D) : \E S \in SetattrPrefixes(resp) :
          /\ Commit(__init(Self, resp, S))
          /\ op' = "load"
          /\ ret' = [none |-> TRUE]
    /\ UNCHANGED <<pollVars, result, layerAttrs, threads>>

\* the property builds the list on every read
layers_NoCache(D) ==
    /\ Idle
    /\ \E resp \in Answers(_json_dict = None, D) :
       \E S \in SetattrPrefixes(resp) :
          LET r == _load_layers(Self, resp, S)
          IN  /\ Commit(r)
              /\ ret' = IF r.exc = "none" THEN [list |-> Get(r.self._layers)]
                        ELSE [none |-> TRUE]
    /\ op' = "layers"
    /\ UNCHANGED <<pollVars, result, layerAttrs, threads>>

\* the `layers` property
layers(D) ==
    /\ Idle
    /\ \E resp \in Answers(_layers = None /\ _json_dict = None, D) :
       \E S \in SetattrPrefixes(resp) :
          LET r == IF _layers = None
                   THEN _load_layers(Self, resp, S)
                   ELSE [self |-> Self, exc |-> "none", sent |-> <<>>]
          IN  /\ Commit(r)
              /\ ret' = IF r.exc = "none" THEN [list |-> Get(r.self._layers)]
                        ELSE [none |-> TRUE]
    /\ op' = "layers"
    /\ UNCHANGED <<pollVars, result, layerAttrs, threads>>

\* the `tables` property
tables(D) ==
    /\ Idle
    /\ \E resp \in Answers(_tables = None /\ _json_dict = None, D) :
       \E S \in SetattrPrefixes(resp) :
          LET r == IF _tables = None
                   THEN _load_layers(Self, resp, S)
                   ELSE [self |-> Self, exc |-> "none", sent |-> <<>>]
          IN  /\ Commit(r)
              /\ ret' = IF r.exc = "none" THEN [list |-> Get(r.self._tables)]
                        ELSE [none |-> TRUE]
    /\ op' = "tables"
    /\ UNCHANGED <<pollVars, result, layerAttrs, threads>>

\* FeatureService.refresh_service(): the call self.__init() lacks the
\* required argument `connection` and raises TypeError
refresh_service ==
    /\ Idle
    /\ _tables' = None
    /\ _layers' = None
    /\ exc' = "TypeError"
    /\ sent' = <<>>
    /\ ret' = [none |-> TRUE]
    /\ op' = "refresh_service"
    /\ UNCHANGED <<_json_dict, attrs>>
    /\ UNCHANGED <<pollVars, result, layerAttrs, threads>>

\* the callers that share one descriptor
Threads == {1, 2}

\* the object after construction: the class attributes of lines 25-29
Init ==
    /\ _json_dict = None
    /\ _layers = None
    /\ _tables = None
    /\ attrs = EmptyMap
    /\ op = "new"
    /\ sent = <<>>
    /\ ret = [none |-> TRUE]
    /\ exc = "none"
    /\ pc = "idle"
    /\ args = None
    /\ exportJob = None
    /\ status = None
    /\ statusLog = <<>>
    /\ jobSettled = FALSE
    /\ result = None
    /\ layerAttrs = EmptyMap
    /\ threads = [t \in Threads |->
                      [pc |-> "idle", kind |-> "none", json_dict |-> None,
                       i |-> 0, depth |-> 0, ret |-> [none |-> TRUE],
                       exc |-> "none", overlapped |-> FALSE]]

LoadDesc == Load(Docs)
ReadLayers == layers(Docs)
ReadTables == tables(Docs)

NextDesc == LoadDesc \/ ReadLayers \/ ReadTables \/ refresh_service

SpecDesc == Init /\ [][NextDesc]_vars

\* ------------------------------------------------------- createReplica
\* str.lower() on the strings that occur in the model
LowerTable == [SQLite |-> "sqlite", XML |-> "xml", Completed |-> "completed",
               FAILED |-> "failed", Running |-> "running",
               Native |-> "native", STANDARD |-> "standard"]
Lower(str) == IF str \in DOMAIN LowerTable THEN LowerTable[str] ELSE str

JobUrl == "http://host/jobs/j1"
ResultUrl == "http://host/out/result.zip"
ResponseUrl == "http://host/out/response.json"

\* os.path.isdir(out_path)
IsDir(path) == path = "/out"

OutPaths == {None, Some("/out"), Some("/missing")}
DataFormats == {"json", "SQLite", "XML"}
GeometryFilters ==
    {None,
     Some([geometry |-> "0,0,1,1", geometryType |-> "esriGeometryEnvelope",
           inSR |-> 4326]),
     Some([f |-> "pjson"]),
     Some([dataFormat |-> "XML"])}
\* layerQueries, replicaSR, replicaOptions, transportType: all left out or all given
OptionalArgs ==
    {[layerQueries |-> None, replicaSR |-> None, replicaOptions |-> None,
      transportType |-> None],
     [layerQueries |-> Some("lq"), replicaSR |-> Some(4326),
      replicaOptions |-> Some("ro"),
      transportType |-> Some("esriTransportTypeUrl")]}

CallArgs ==
    {[async |-> a, wait |-> w, out_path |-> o, dataFormat |-> d,
      geometryFilter |-> g, layerQueries |-> x.layerQueries,
      replicaSR |-> x.replicaSR, replicaOptions |-> x.replicaOptions,
      transportType |-> x.transportType] :
        a \in BOOLEAN, w \in BOOLEAN, o \in OutPaths, d \in DataFormats,
        g \in GeometryFilters, x \in OptionalArgs}

\* the calls that wait for an asynchronous job, with the other arguments fixed
WaitArgs ==
    {a \in CallArgs : /\ a.async /\ a.wait
                      /\ a.dataFormat = "json"
                      /\ a.geometryFilter = None
                      /\ a.layerQueries = None}

\* what the POST to /createReplica may answer
UrlParts ==
    {EmptyMap, [resultUrl |-> ResultUrl], [responseUrl |-> ResponseUrl],
     [resultUrl |-> ResultUrl, responseUrl |-> ResponseUrl]}
ErrorBody == [error |-> [code |-> 400]]
PostResponses ==
    {[statusUrl |-> JobUrl], ErrorBody} \cup {[replicaName |-> "r"] @@ u : u \in UrlParts}

\* what {statusUrl}/status may answer
RunningValues == {"running"}
TerminalValues == {"completed", "Completed", "failed", "FAILED"}
StatusPayloads(values) == {[status |-> v] @@ u : v \in values, u \in UrlParts}

\* lines 353-356: the capability gate
SyncGate(a) ==
    /\ "syncEnabled" \in DOMAIN a
    /\ "capabilities" \in DOMAIN a
    /\ a["syncEnabled"] = FALSE
    /\ \A i \in 1..Len(a["capabilities"]) : a["capabilities"][i] # "Extract"

\* line 359
dataformat == {"filegdb", "json", "sqlite", "shapefile"}

\* the format is passed on unchecked
ValidDataFormat_Unchecked(dataFormat) == TRUE

\* line 369
ValidDataFormat(dataFormat) == Lower(dataFormat) \in dataformat

\* a parameter that was left out is sent as null
OptParam_Null(k, o) == IF o = None THEN k :> "null" ELSE k :> Get(o)

\* `if x is not None: params[k] = x`
OptParam(k, o) == IF o = None THEN EmptyMap ELSE k :> Get(o)

\* lines 360-383: the parameters of the POST
ReplicaParams(a) ==
    LET p0 == [f |-> "json", replicaName |-> "replica",
               returnAttachments |-> FALSE,
               returnAttachmentsDatabyURL |-> FALSE,
               attachmentsSyncDirection |-> "none",
               async |-> a.async, syncModel |-> "none", layers |-> "0"]
        p1 == Update(p0, [dataFormat |-> Lower(a.dataFormat)])
        p2 == Update(p1, OptParam("layerQueries", a.layerQueries))
        p3 == IF a.geometryFilter # None THEN Update(p2, Get(a.geometryFilter))
              ELSE p2
        p4 == Update(p3, OptParam("replicaSR", a.replicaSR))
        p5 == Update(p4, OptParam("replicaOptions", a.replicaOptions))
    IN  Update(p5, OptParam("transportType", a.transportType))

ReplicaPost(a) ==
    [method |-> "POST", url |-> BaseUrl \o "/createReplica",
     postdata |-> ReplicaParams(a)]

\* the status request carries no parameters
StatusGet_NoFormat(url) ==
    [method |-> "GET", url |-> url \o "/status", params |-> EmptyMap]

\* replicaStatus(url): lines 455-458
StatusGet(url) ==
    [method |-> "GET", url |-> url \o "/status", params |-> [f |-> "json"]]

\* line 414: the download request
DownloadGet(dlURL, out_folder) ==
    [method |-> "GET", url |-> dlURL, out_folder |-> out_folder]

\* the loop compares the status as sent, ignoring letter case no more
WhileCondition_CaseSensitive(st) == st["status"] # "completed"

\* the loop gives up after two status requests
WhileCondition_Capped(st) ==
    Lower(st["status"]) # "completed" /\ Len(statusLog) < 2

\* line 390: the condition of the while loop
WhileCondition(st) == Lower(st["status"]) # "completed"

\* the check compares the status as sent
FailedCheck_CaseSensitive(st) == st["status"] = "failed"

\* line 392: the check inside the loop
FailedCheck(st) == Lower(st["status"]) = "failed"

\* responseUrl is looked up before resultUrl
Finish_ResponseUrlFirst(res, out_path) ==
    IF out_path # None /\ IsDir(Get(out_path))
    THEN LET dlURL == IF "responseUrl" \in DOMAIN res THEN Some(res["responseUrl"])
                      ELSE IF "resultUrl" \in DOMAIN res
                           THEN Some(res["resultUrl"])
                           ELSE None
         IN  IF dlURL # None
             THEN [sent |-> <<DownloadGet(Get(dlURL), Get(out_path))>>,
                   ret |-> [download |-> Get(dlURL)]]
             ELSE [sent |-> <<>>, ret |-> [json |-> res]]
    ELSE [sent |-> <<>>, ret |-> [json |-> res]]

\* lines 405-420: what createReplica does with the final response res
Finish(res, out_path) ==
    IF out_path # None /\ IsDir(Get(out_path))
    THEN LET dlURL == IF "resultUrl" \in DOMAIN res THEN Some(res["resultUrl"])
                      ELSE IF "responseUrl" \in DOMAIN res
                           THEN Some(res["responseUrl"])
                           ELSE None
         IN  IF dlURL # None
             THEN [sent |-> <<DownloadGet(Get(dlURL), Get(out_path))>>,
                   ret |-> [download |-> Get(dlURL)]]
             ELSE [sent |-> <<>>, ret |-> [json |-> res]]
    ELSE [sent |-> <<>>, ret |-> [json |-> res]]

Raise(e) ==
    /\ exc' = e
    /\ ret' = [none |-> TRUE]
    /\ pc' = "idle"

\* createReplica(...) up to its return or, with async and wait, up to the
\* answer of the POST.  The transport takes the url under either keyword
\* (url= at line 387, path_or_url= at lines 398 and 401).  The call reads the descriptor and leaves it as it
\* is, so calls do not influence each other and a run holds one call.
createReplica(A) ==
    /\ Idle
    /\ args = None
    /\ op' = "createReplica"
    /\ status' = None
    /\ statusLog' = <<>>
    /\ jobSettled' = FALSE
    /\ UNCHANGED <<descVars, layerAttrs, threads>>
    /\ \E a \in A :
        /\ args' = Some(a)
        /\ IF SyncGate(attrs)
           THEN /\ sent' = <<>>
                /\ ret' = [none |-> TRUE]
                /\ exc' = "none"
                /\ pc' = "idle"
                /\ exportJob' = None
                /\ result' = None
           ELSE IF ~ValidDataFormat(a.dataFormat)
           THEN /\ sent' = <<>>
                /\ Raise("Exception")
                /\ exportJob' = None
                /\ result' = None
           ELSE \E res \in PostResponses :
                  IF a.async /\ a.wait
                  THEN /\ exportJob' = Some(res)
                       /\ result' = None
                       /\ sent' = <<ReplicaPost(a)>>
                       /\ IF "statusUrl" \in DOMAIN res
                          THEN /\ pc' = "first_status"
                               /\ ret' = [none |-> TRUE]
                               /\ exc' = "none"
                          ELSE Raise("KeyError")
                  ELSE LET r == Finish(res, a.out_path)
                       IN  /\ exportJob' = None
                           /\ result' = Some(res)
                           /\ sent' = <<ReplicaPost(a)>> \o r.sent
                           /\ ret' = r.ret
                           /\ exc' = "none"
                           /\ pc' = "idle"

\* the answers the status endpoint can give now: a settled job answers a
\* terminal status; an unsettled one answers anything, a non-terminal status
\* at most MaxRunning times in one call
NonTerminalCount ==
    Cardinality({i \in 1..Len(statusLog) : statusLog[i] \in RunningValues})

StatusAnswers ==
    IF jobSettled THEN StatusPayloads(TerminalValues)
    ELSE StatusPayloads(TerminalValues) \cup {ErrorBody}
         \cup (IF NonTerminalCount < MaxRunning
               THEN StatusPayloads(RunningValues) ELSE {})

\* a call of the code sends at most LogCap requests (the POST, a first status
\* request, MaxRunning + 1 more and the download); the logs keep that many
LogCap == MaxRunning + 4
Keep(log) == IF Len(log) <= LogCap THEN log ELSE SubSeq(log, 1, LogCap)

Logged(st) == IF "status" \in DOMAIN st
              THEN Keep(Append(statusLog, st["status"]))
              ELSE Keep(Append(statusLog, "(no status)"))

\* the server-side job reaches a terminal state
Settle ==
    /\ pc # "idle"
    /\ ~jobSettled
    /\ jobSettled' = TRUE
    /\ UNCHANGED <<descVars, op, sent, ret, exc, pc, args, exportJob, status,
                   statusLog, result, layerAttrs, threads>>

\* line 389 and the first test of line 390
FirstStatus ==
    /\ pc = "first_status"
    /\ \E st \in StatusAnswers :
        /\ status' = Some(st)
        /\ statusLog' = Logged(st)
        /\ IF "status" \notin DOMAIN st
           THEN /\ sent' = Keep(Append(sent, StatusGet(Get(exportJob)["statusUrl"])))
                /\ Raise("KeyError")
                /\ UNCHANGED result
           ELSE IF WhileCondition(st)
           THEN /\ sent' = Keep(Append(sent, StatusGet(Get(exportJob)["statusUrl"])))
                /\ pc' = "loop_status"
                /\ UNCHANGED <<ret, exc, result>>
           ELSE LET r == Finish(st, Get(args).out_path)
                IN  /\ result' = Some(st)
                    /\ sent' = Keep(Append(sent, StatusGet(Get(exportJob)["statusUrl"]))
                                 \o r.sent)
                    /\ ret' = r.ret
                    /\ exc' = "none"
                    /\ pc' = "idle"
    /\ UNCHANGED <<descVars, op, args, exportJob, jobSettled, layerAttrs,
                   threads>>

\* lines 391-393 and the next test of line 390
LoopStatus ==
    /\ pc = "loop_status"
    /\ \E st \in StatusAnswers :
        /\ status' = Some(st)
        /\ statusLog' = Logged(st)
        /\ IF "status" \notin DOMAIN st
           THEN /\ sent' = Keep(Append(sent, StatusGet(Get(exportJob)["statusUrl"])))
                /\ Raise("KeyError")
                /\ UNCHANGED result
           ELSE IF FailedCheck(st)
           THEN /\ sent' = Keep(Append(sent, StatusGet(Get(exportJob)["statusUrl"])))
                /\ ret' = [json |-> st]
                /\ exc' = "none"
                /\ pc' = "idle"
                /\ UNCHANGED result
           ELSE IF WhileCondition(st)
           THEN /\ sent' = Keep(Append(sent, StatusGet(Get(exportJob)["statusUrl"])))
                /\ UNCHANGED <<ret, exc, pc, result>>
           ELSE LET r == Finish(st, Get(args).out_path)
                IN  /\ result' = Some(st)
                    /\ sent' = Keep(Append(sent, StatusGet(Get(exportJob)["statusUrl"]))
                                 \o r.sent)
                    /\ ret' = r.ret
                    /\ exc' = "none"
                    /\ pc' = "idle"
    /\ UNCHANGED <<descVars, op, args, exportJob, jobSettled, layerAttrs,
                   threads>>

\* the descriptor is loaded once, before replicas are created
LoadFlags == _json_dict = None /\ Load(FlagDocs)

CreateReplicaCall == createReplica(CallArgs)
CreateReplicaWait == createReplica(WaitArgs)

NextReplica ==
    LoadFlags \/ CreateReplicaCall \/ Settle \/ FirstStatus \/ LoopStatus

SpecReplica == Init /\ [][NextReplica]_vars

NextWait == CreateReplicaWait \/ Settle \/ FirstStatus \/ LoopStatus

\* the waiting calls alone; the calling thread runs on and the transport
\* answers every request
SpecWait ==
    Init /\ [][NextWait]_vars /\ WF_vars(FirstStatus) /\ WF_vars(LoopStatus)

\* ============================================== one-request operations
\* The operations below build one request, send it and hand back the decoded
\* answer.  They keep nothing on the object, so calls do not influence each
\* other and a run holds one call (args = None before it).

\* decoded JSON bodies the server answers an operation with
Responses == {[success |-> TRUE], ErrorBody}

\* Python values are held with their type: a dict, a list, a str, or an
\* instance of a class
IsDict(v) == "dict" \in DOMAIN v
IsList(v) == "list" \in DOMAIN v
IsStr(v) == "str" \in DOMAIN v

\* what the call leaves alone, and the record of the call
CallFrame(name, a) ==
    /\ Idle
    /\ args = None
    /\ op' = name
    /\ args' = Some(a)
    /\ UNCHANGED <<descVars, pc, exportJob, status, statusLog, jobSettled,
                   layerAttrs, threads>>

\* return self._con.get(...) / return self._con.post(...)
SendAndReturn(req, R) ==
    \E r \in R :
        /\ sent' = <<req>>
        /\ result' = Some(r)
        /\ ret' = [json |-> r]
        /\ exc' = "none"

\* a return before any request
ReturnLocal(value) ==
    /\ sent' = <<>>
    /\ result' = None
    /\ ret' = value
    /\ exc' = "none"

\* a raise before any request
RaiseLocal(e) ==
    /\ sent' = <<>>
    /\ result' = None
    /\ ret' = [none |-> TRUE]
    /\ exc' = e

Get_(url, params) == [method |-> "GET", url |-> url, params |-> params]
Post(url, postdata) == [method |-> "POST", url |-> url, postdata |-> postdata]

\* an empty string counts as a value
NotBlank_NotNone(o) == o # None

\* `x is not None and x != ""` (lines 617-622, 879-882)
NotBlank(o) == o # None /\ Get(o) # ""

\* a geometry filter: left out, the mapping the code reads, or an instance
\* of the GeometryFilter class the docstrings name
GeometryDict ==
    [geometry |-> "0,0,1,1", geometryType |-> "esriGeometryEnvelope",
     spatialRel |-> "esriSpatialRelIntersects", inSR |-> 4326]
FilterArgs ==
    {None, Some([dict |-> GeometryDict]), Some([object |-> "GeometryFilter"])}
TimeArgs == {None, Some([dict |-> [startTime |-> 0, endTime |-> 1]])}

\* ======================================================== FeatureLayer
\* self._url of the layer
LayerUrl == BaseUrl \o "/0"

\* metadata documents of a layer
LayerDocs ==
    {h @@ p :
        h \in OptKey("hasAttachments", BOOLEAN),
        p \in OptKey("htmlPopupType",
                     {"esriServerHTMLPopupTypeNone",
                      "esriServerHTMLPopupTypeAsHTMLText"})}

\* the layer object takes its metadata: every returned key becomes an
\* attribute of the object
LayerLoad ==
    /\ Idle
    /\ args = None
    /\ op \notin {"layer_load"}
    /\ \E doc \in LayerDocs : layerAttrs' = doc
    /\ op' = "layer_load"
    /\ sent' = <<Get_(LayerUrl, [f |-> "json"])>>
    /\ ret' = [none |-> TRUE]
    /\ exc' = "none"
    /\ UNCHANGED <<descVars, pollVars, result, threads>>

\* ------------------------------------------------ query (lines 538-632)
\* extra key/value pairs of the call (**kwargs): names that are not
\* parameters of query
QueryKwargs ==
    {EmptyMap, [f |-> "pjson"], [geometry |-> "5,5"],
     [orderByFields |-> "NAME"]}

\* resultOffset and resultRecordCount are left out, blank or given together;
\* so are groupByFieldsForStatistics and statisticFilter
PagingArgs ==
    {[resultOffset |-> o, resultRecordCount |-> o] :
        o \in {None, Some(""), Some("10")}}
StatisticsArgs ==
    {[groupByFieldsForStatistics |-> None, statisticFilter |-> None],
     [groupByFieldsForStatistics |-> Some("ZONE"),
      statisticFilter |-> Some([dict |-> [statisticType |-> "count"]])]}

LayerQueryArgs ==
    {[where |-> "1=1", out_fields |-> "*", timeFilter |-> t,
      geometryFilter |-> g, returnGeometry |-> TRUE, returnIDsOnly |-> FALSE,
      returnCountOnly |-> FALSE, returnDistinctValues |-> FALSE,
      returnExtentOnly |-> FALSE, objectIds |-> o,
      resultOffset |-> p.resultOffset,
      resultRecordCount |-> p.resultRecordCount,
      groupByFieldsForStatistics |-> s.groupByFieldsForStatistics,
      statisticFilter |-> s.statisticFilter, kwargs |-> k] :
        t \in TimeArgs, g \in FilterArgs, o \in {None, Some(""), Some("1,2")},
        p \in PagingArgs, s \in StatisticsArgs, k \in QueryKwargs}

\* lines 596-627
LayerQueryParams(a) ==
    LET p0 == [f |-> "json", where |-> a.where, outFields |-> a.out_fields,
               returnGeometry |-> a.returnGeometry,
               returnIdsOnly |-> a.returnIDsOnly,
               returnCountOnly |-> a.returnCountOnly,
               returnDistinctValues |-> a.returnDistinctValues,
               returnExtentOnly |-> a.returnExtentOnly]
        p1 == Update(p0, a.kwargs)
        p2 == IF a.timeFilter # None /\ IsDict(Get(a.timeFilter))
              THEN Update(p1, [time |-> Get(a.timeFilter).dict]) ELSE p1
        p3 == IF a.geometryFilter # None /\ IsDict(Get(a.geometryFilter))
              THEN LET gf == Get(a.geometryFilter).dict
                   IN  Update(p2, [geometry |-> gf["geometry"],
                                   geometryType |-> gf["geometryType"],
                                   spatialRelationship |-> gf["spatialRel"],
                                   inSR |-> gf["inSR"]])
              ELSE p2
        p4 == IF NotBlank(a.objectIds)
              THEN Update(p3, [objectIds |-> Get(a.objectIds)]) ELSE p3
        p5 == IF NotBlank(a.resultOffset)
              THEN Update(p4, [resultOffset |-> Get(a.resultOffset)]) ELSE p4
        p6 == IF NotBlank(a.resultRecordCount)
              THEN Update(p5, [resultRecordCount |-> Get(a.resultRecordCount)])
              ELSE p5
        p7 == IF a.groupByFieldsForStatistics # None
              THEN Update(p6, [groupByFieldsForStatistics |->
                                   Get(a.groupByFieldsForStatistics)])
              ELSE p6
    IN  IF a.statisticFilter # None /\ IsDict(Get(a.statisticFilter))
        THEN Update(p7, [outStatistics |-> Get(a.statisticFilter).dict])
        ELSE p7

QueryResponses == {[features |-> <<[OBJECTID |-> 1]>>], ErrorBody}

\* the query raises on no answer at all
ErrorInResults_Never(results) == FALSE

\* line 630: 'error' in results
ErrorInResults(results) == "error" \in DOMAIN results

\* FeatureLayer.query
FeatureLayer_query ==
    \E a \in LayerQueryArgs, results \in QueryResponses :
        /\ CallFrame("FeatureLayer.query", a)
        /\ sent' = <<Post(LayerUrl \o "/query", LayerQueryParams(a))>>
        /\ result' = Some(results)
        /\ IF ErrorInResults(results)
           THEN /\ exc' = "ValueError"
                /\ ret' = [none |-> TRUE]
           ELSE /\ exc' = "none"
                /\ ret' = [json |-> results]

\* --------------------------------------------------------- json.dumps
\* most records in one features list
MaxFeatures == 2

\* The order in which a dict gives its keys belongs to the dict object: the
\* hash table of Python 2 decides it from the keys, the hash seed of the
\* process and what the dict has held before, so two dicts with the same
\* keys can differ in it.  It is one of the orders of the keys.
KeyOrders(keys) ==
    {o \in [1..Cardinality(keys) -> keys] :
        \A i, j \in DOMAIN o : o[i] = o[j] => i = j}

\* the mappings the callers pass, features and calculate expressions, each
\* with the order in which it gives its keys
Feature(i, name, order) ==
    [dict |-> [OBJECTID |-> i, NAME |-> name], order |-> order]
FeatureDicts ==
    {Feature(1, "a", o) : o \in KeyOrders({"OBJECTID", "NAME"})}
    \cup {Feature(2, "b", o) : o \in KeyOrders({"OBJECTID", "NAME"})}
CalcDicts ==
    {[dict |-> [field |-> "ZONE", value |-> "R1"], order |-> o] :
        o \in KeyOrders({"field", "value"})}

\* json.dumps of a mapping, with the separators ", " and ": " of the
\* default; its members are written in the order `order` gives to its keys
\* (OBJECTID holds a number, the other members hold strings)
DumpsDict(d, order) ==
    LET keys == SelectSeq(order, LAMBDA k : k \in DOMAIN d)
        Member(k) == "\"" \o k \o "\": "
                     \o (IF k = "OBJECTID" THEN ToString(d[k])
                         ELSE "\"" \o d[k] \o "\"")
        Members[n \in 0..Len(keys)] ==
            IF n = 0 THEN ""
            ELSE IF n = 1 THEN Member(keys[1])
            ELSE Members[n - 1] \o ", " \o Member(keys[n])
    IN  "{" \o Members[Len(keys)] \o "}"

\* the items of a list, each a mapping or a string, joined by ", "; every
\* mapping is written in its own key order
RECURSIVE DumpsItems(_)
DumpsItems(s) ==
    LET Item(v) == IF IsDict(v) THEN DumpsDict(v.dict, v.order)
                   ELSE "\"" \o v.str \o "\""
    IN  IF Len(s) = 0 THEN ""
        ELSE IF Len(s) = 1 THEN Item(s[1])
        ELSE Item(s[1]) \o ", " \o DumpsItems(Tail(s))

\* json.dumps of a list
JsonDumps(s) == "[" \o DumpsItems(s) \o "]"

\* ------------------------------------- updateFeature (lines 808-837)
FeatureInputs ==
    FeatureDicts
    \cup {[list |-> s] : s \in SeqsUpTo(FeatureDicts, MaxFeatures)}
    \cup {[str |-> "feature"]}

UpdateFeatureArgs ==
    {[features |-> x, gdbVersion |-> g, rollbackOnFailure |-> r] :
        x \in FeatureInputs, g \in {None, Some("v1")}, r \in BOOLEAN}

\* every value of `features` is taken for a list of records
ValidFeatures_Any(features) == TRUE

\* lines 827-832 and 974-981: the tests that lead to a request
ValidFeatures(features) == IsDict(features) \/ IsList(features)

\* a single record is serialized as it is, not as a list of one
updateFeatureParams_Unwrapped(a) ==
    LET p0 == [f |-> "json", rollbackOnFailure |-> a.rollbackOnFailure]
        p1 == Update(p0, OptParam("gdbVersion", a.gdbVersion))
    IN  IF IsDict(a.features)
        THEN Update(p1, [features |-> DumpsItems(<<a.features>>)])
        ELSE IF IsList(a.features)
        THEN Update(p1, [features |-> JsonDumps(a.features.list)])
        ELSE p1

\* lines 821-830
updateFeatureParams(a) ==
    LET p0 == [f |-> "json", rollbackOnFailure |-> a.rollbackOnFailure]
        p1 == Update(p0, OptParam("gdbVersion", a.gdbVersion))
    IN  IF IsDict(a.features)
        THEN Update(p1, [features |-> JsonDumps(<<a.features>>)])
        ELSE IF IsList(a.features)
        THEN Update(p1, [features |-> JsonDumps(a.features.list)])
        ELSE p1

updateFeature ==
    \E a \in UpdateFeatureArgs :
        /\ CallFrame("updateFeature", a)
        /\ IF ValidFeatures(a.features)
           THEN SendAndReturn(Post(LayerUrl \o "/updateFeatures",
                                   updateFeatureParams(a)), Responses)
           ELSE RaiseLocal("ValueError")

\* ---------------------------------------- addFeature (lines 947-983)
IsBool(v) == "bool" \in DOMAIN v

AddFeatureArgs ==
    {[features |-> x, gdbVersion |-> g, rollbackOnFailure |-> r] :
        x \in FeatureInputs, g \in {None, Some("v1")},
        r \in {[bool |-> TRUE], [bool |-> FALSE], [str |-> "yes"]}}

\* lines 965-978
addFeatureParams(a) ==
    LET p0 == [f |-> "json"]
        p1 == Update(p0, OptParam("gdbVersion", a.gdbVersion))
        p2 == IF IsBool(a.rollbackOnFailure)
              THEN Update(p1, [rollbackOnFailure |-> a.rollbackOnFailure.bool])
              ELSE p1
    IN  IF IsList(a.features)
        THEN Update(p2, [features |-> JsonDumps(a.features.list)])
        ELSE IF IsDict(a.features)
        THEN Update(p2, [features |-> JsonDumps(<<a.features>>)])
        ELSE p2

addFeature ==
    \E a \in AddFeatureArgs :
        /\ CallFrame("addFeature", a)
        /\ IF ValidFeatures(a.features)
           THEN SendAndReturn(Post(LayerUrl \o "/addFeatures",
                                   addFeatureParams(a)), Responses)
           ELSE RaiseLocal("ValueError")

\* ----------------------------------------- calculate (lines 986-1041)
CalculateArgs ==
    {[where |-> "1=1", calcExpression |-> c, sqlFormat |-> s] :
        c \in CalcDicts \cup {[list |-> <<x>>] : x \in CalcDicts}
              \cup {[list |-> <<>>], [str |-> "ZONE='R1'"]},
        s \in {"standard", "native", "Native", "STANDARD", "sql92"}}

\* lines 1025-1039
\* sqlFormat is sent as the caller wrote it
calculateParams_FormatAsGiven(a) ==
    LET p0 == [f |-> "json", where |-> a.where]
        p1 == IF IsDict(a.calcExpression)
              THEN Update(p0, [calcExpression |-> JsonDumps(<<a.calcExpression>>)])
              ELSE IF IsList(a.calcExpression)
              THEN Update(p0, [calcExpression |-> JsonDumps(a.calcExpression.list)])
              ELSE p0
    IN  Update(p1, [sqlFormat |-> a.sqlFormat])

calculateParams(a) ==
    LET p0 == [f |-> "json", where |-> a.where]
        p1 == IF IsDict(a.calcExpression)
              THEN Update(p0, [calcExpression |-> JsonDumps(<<a.calcExpression>>)])
              ELSE IF IsList(a.calcExpression)
              THEN Update(p0, [calcExpression |-> JsonDumps(a.calcExpression.list)])
              ELSE p0
    IN  IF Lower(a.sqlFormat) \in {"native", "standard"}
        THEN Update(p1, [sqlFormat |-> Lower(a.sqlFormat)])
        ELSE Update(p1, [sqlFormat |-> "standard"])

calculate ==
    \E a \in CalculateArgs :
        /\ CallFrame("calculate", a)
        /\ SendAndReturn(Post(LayerUrl \o "/calculate", calculateParams(a)),
                         Responses)

\* ------------------------------------- attachments (lines 473-536)
ObjectIds == {1}
AttachmentIds == {7}

\* the url of a feature's resource: self._url + "/%s/name" % oid
FeatureUrl(oid, name) == LayerUrl \o "/" \o ToString(oid) \o "/" \o name

\* hasattr(self, name) and the value getattr(self, name) gives
HasAttr(name) == name \in DOMAIN layerAttrs

\* lines 481-482
AttachmentsGate == HasAttr("hasAttachments") /\ layerAttrs["hasAttachments"] = TRUE

\* line 21 binds the name urlparse to the function urlparse of urllib_parse;
\* a function has no attribute urlparse, so the attribute lookup of line 485
\* raises AttributeError
UrlparseHasAttribute == FALSE

NotSupported == [str |-> "Attachments are not supported for this feature service."]

addAttachment ==
    \E oid \in ObjectIds :
        /\ CallFrame("addAttachment", [oid |-> oid, file_path |-> "a.txt"])
        /\ IF AttachmentsGate
           THEN IF UrlparseHasAttribute
                THEN SendAndReturn(
                         [method |-> "POST",
                          url |-> FeatureUrl(oid, "addAttachment"),
                          postdata |-> [f |-> "json"],
                          files |-> [attachment |-> "a.txt"]], Responses)
                ELSE RaiseLocal("AttributeError")
           ELSE ReturnLocal(NotSupported)

deleteAttachment ==
    \E oid \in ObjectIds, attachment_id \in AttachmentIds :
        /\ CallFrame("deleteAttachment",
                     [oid |-> oid, attachment_id |-> attachment_id])
        /\ SendAndReturn(Post(FeatureUrl(oid, "deleteAttachments"),
                              [f |-> "json",
                               attachmentIds |-> ToString(attachment_id)]),
                         Responses)

updateAttachment ==
    \E oid \in ObjectIds, attachment_id \in AttachmentIds :
        /\ CallFrame("updateAttachment",
                     [oid |-> oid, attachment_id |-> attachment_id,
                      file_path |-> "a.txt"])
        /\ SendAndReturn([method |-> "POST",
                          url |-> FeatureUrl(oid, "updateAttachment"),
                          postdata |-> [f |-> "json",
                                        attachmentId |-> ToString(attachment_id)],
                          files |-> [attachment |-> "a.txt"]], Responses)

listAttachments ==
    \E oid \in ObjectIds :
        /\ CallFrame("listAttachments", [oid |-> oid])
        /\ SendAndReturn(Get_(FeatureUrl(oid, "attachments"), [f |-> "json"]),
                         Responses)

\* ------------------------------------ getHTMLPopup (lines 725-742)
getHTMLPopup ==
    \E oid \in ObjectIds :
        /\ CallFrame("getHTMLPopup", [oid |-> oid])
        /\ IF HasAttr("htmlPopupType")
              /\ layerAttrs["htmlPopupType"] # "esriServerHTMLPopupTypeNone"
           THEN SendAndReturn(Get_(FeatureUrl(oid, "htmlPopup"), [f |-> "json"]),
                              Responses)
           ELSE ReturnLocal([str |-> ""])

\* ---------------------------------- deleteFeatures (lines 839-887)
DeleteFeaturesArgs ==
    {[objectIds |-> o, where |-> w, geometryFilter |-> g, gdbVersion |-> v,
      rollbackOnFailure |-> r] :
        o \in {None, Some(""), Some("1,2")}, w \in {None, Some(""), Some("A=1")},
        g \in FilterArgs, v \in {None, Some("v1")}, r \in BOOLEAN}

\* lines 869-884
deleteFeaturesParams(a) ==
    LET p0 == [f |-> "json"]
        p1 == IF a.geometryFilter # None /\ IsDict(Get(a.geometryFilter))
              THEN LET gfilter == Get(a.geometryFilter).dict
                   IN  Update(p0, [geometry |-> gfilter["geometry"],
                                   geometryType |-> gfilter["geometryType"],
                                   inSR |-> gfilter["inSR"],
                                   spatialRel |-> gfilter["spatialRel"]])
              ELSE p0
        p2 == IF NotBlank(a.where)
              THEN Update(p1, [where |-> Get(a.where)]) ELSE p1
    IN  IF NotBlank(a.objectIds)
        THEN Update(p2, [objectIds |-> Get(a.objectIds)]) ELSE p2

deleteFeatures ==
    \E a \in DeleteFeaturesArgs :
        /\ CallFrame("deleteFeatures", a)
        /\ SendAndReturn(Post(LayerUrl \o "/deleteFeatures",
                              deleteFeaturesParams(a)), Responses)

\* -------------------------------------- applyEdits (lines 889-945)
\* a list of edits: left out, empty, one record (in either key order), two
\* records that differ in their key order, or one value that is no mapping
EditLists ==
    {None, Some([list |-> <<>>]), Some([list |-> <<[str |-> "1"]>>]),
     Some([list |-> <<Feature(1, "a", <<"NAME", "OBJECTID">>),
                      Feature(2, "b", <<"OBJECTID", "NAME">>)>>])}
    \cup {Some([list |-> <<Feature(1, "a", o)>>]) :
             o \in KeyOrders({"OBJECTID", "NAME"})}
DeleteInputs == {None, Some([str |-> "1,2"]), Some([list |-> <<1, 2>>])}

ApplyEditsArgs ==
    {[addFeatures |-> x, updateFeatures |-> u, deleteFeatures |-> d,
      gdbVersion |-> v, useGlobalIds |-> FALSE, rollbackOnFailure |-> TRUE] :
        x \in EditLists, u \in EditLists, d \in DeleteInputs,
        v \in {None, Some("v1")}}

\* an argument left out stands for a list of one record
OrEmpty_OneRecord(o) ==
    IF o = None THEN <<Feature(1, "a", <<"NAME", "OBJECTID">>)>>
    ELSE Get(o).list

\* lines 923-926: None becomes the empty list
OrEmpty(o) == IF o = None THEN <<>> ELSE Get(o).list

\* lines 927-944
applyEditsParams(a) ==
    LET addFeatures == OrEmpty(a.addFeatures)
        updateFeatures == OrEmpty(a.updateFeatures)
        p0 == [f |-> "json", useGlobalIds |-> a.useGlobalIds,
               rollbackOnFailure |-> a.rollbackOnFailure]
        p1 == Update(p0, OptParam("gdbVersion", a.gdbVersion))
        p2 == IF Len(addFeatures) > 0 /\ IsDict(addFeatures[1])
              THEN Update(p1, [adds |-> JsonDumps(addFeatures)]) ELSE p1
        p3 == IF Len(updateFeatures) > 0 /\ IsDict(updateFeatures[1])
              THEN Update(p2, [updates |-> JsonDumps(updateFeatures)]) ELSE p2
    IN  IF a.deleteFeatures # None /\ IsStr(Get(a.deleteFeatures))
        THEN Update(p3, [deletes |-> Get(a.deleteFeatures).str]) ELSE p3

applyEdits ==
    \E a \in ApplyEditsArgs :
        /\ CallFrame("applyEdits", a)
        /\ SendAndReturn(Post(LayerUrl \o "/applyEdits", applyEditsParams(a)),
                         Responses)

\* ------------- query_related_records (lines 136-226 and 634-723)
\* a spatial reference: left out, a mapping, an instance of
\* SpatialReference, or a bare well-known id
IsSpatialReference(v) == "SpatialReference" \in DOMAIN v
\* the property as_dict of SpatialReference
as_dict(v) == v.SpatialReference
SpatialRefArgs ==
    {None, Some([dict |-> [wkid |-> 4326]]),
     Some([SpatialReference |-> [wkid |-> 102100]]), Some([int |-> 4326])}

\* outSR as lines 123-128, 212-217 and 712-717 set it
OutSRParam(o) ==
    IF o # None /\ IsSpatialReference(Get(o)) THEN [outSR |-> as_dict(Get(o))]
    ELSE IF o # None /\ IsDict(Get(o)) THEN [outSR |-> Get(o).dict]
    ELSE EmptyMap

RelatedRecordsArgs ==
    {[objectIds |-> "1,2", relationshipId |-> "0", outFields |-> "*",
      definitionExpression |-> d, returnGeometry |-> TRUE,
      maxAllowableOffset |-> m, geometryPrecision |-> m, outWKID |-> w,
      gdbVersion |-> v, returnZ |-> FALSE, returnM |-> FALSE] :
        d \in {None, Some("A=1")}, m \in {None, Some(2)},
        w \in SpatialRefArgs, v \in {None, Some("v1")}}

\* lines 196-222; lines 696-721 are the same statements
RelatedRecordsParams(a) ==
    LET p0 == [f |-> "json", objectIds |-> a.objectIds,
               relationshipId |-> a.relationshipId, outFields |-> a.outFields,
               returnGeometry |-> a.returnGeometry, returnM |-> a.returnM,
               returnZ |-> a.returnZ]
        p1 == Update(p0, OptParam("gdbVersion", a.gdbVersion))
        p2 == Update(p1, OptParam("definitionExpression", a.definitionExpression))
        p3 == Update(p2, OutSRParam(a.outWKID))
        p4 == Update(p3, OptParam("maxAllowableOffset", a.maxAllowableOffset))
    IN  Update(p4, OptParam("geometryPrecision", a.geometryPrecision))

FeatureLayer_query_related_records ==
    \E a \in RelatedRecordsArgs :
        /\ CallFrame("FeatureLayer.query_related_records", a)
        /\ SendAndReturn(Get_(LayerUrl \o "/queryRelatedRecords",
                              RelatedRecordsParams(a)), Responses)

\* ====================================== FeatureService, one request
FeatureService_query_related_records ==
    \E a \in RelatedRecordsArgs :
        /\ CallFrame("FeatureService.query_related_records", a)
        /\ SendAndReturn(Get_(BaseUrl \o "/queryRelatedRecords",
                              RelatedRecordsParams(a)), Responses)

\* --------------------------------------------- query (lines 92-134)
ServiceQueryArgs ==
    {[layerDefsFilter |-> l, geometryFilter |-> g, timeFilter |-> t,
      returnGeometry |-> TRUE, returnIdsOnly |-> FALSE,
      returnCountOnly |-> FALSE, returnZ |-> FALSE, returnM |-> FALSE,
      outSR |-> o] :
        l \in {None, Some([dict |-> ("0" :> "A=1")]), Some([str |-> "0:A=1"])},
        g \in FilterArgs, t \in TimeArgs, o \in SpatialRefArgs}

\* lines 107-131
ServiceQueryParams(a) ==
    LET p0 == [f |-> "json", returnGeometry |-> a.returnGeometry,
               returnIdsOnly |-> a.returnIdsOnly,
               returnCountOnly |-> a.returnCountOnly,
               returnZ |-> a.returnZ, returnM |-> a.returnM]
        p1 == IF a.layerDefsFilter # None /\ IsDict(Get(a.layerDefsFilter))
              THEN Update(p0, [layerDefs |-> Get(a.layerDefsFilter).dict])
              ELSE p0
        p2 == IF a.geometryFilter # None /\ IsDict(Get(a.geometryFilter))
              THEN LET gf == Get(a.geometryFilter).dict
                   IN  Update(p1, [geometryType |-> gf["geometryType"],
                                   spatialRel |-> gf["spatialRel"],
                                   geometry |-> gf["geometry"],
                                   inSR |-> gf["inSR"]])
              ELSE p1
        p3 == Update(p2, OutSRParam(a.outSR))
    IN  IF a.timeFilter # None /\ IsDict(Get(a.timeFilter))
        THEN Update(p3, [time |-> Get(a.timeFilter).dict]) ELSE p3

FeatureService_query ==
    \E a \in ServiceQueryArgs :
        /\ CallFrame("FeatureService.query", a)
        /\ SendAndReturn(Get_(BaseUrl \o "/query", ServiceQueryParams(a)),
                         Responses)

\* ------------------------------------------ replicas (lines 228-265)
ReplicaIds == {"r1"}

replicas ==
    /\ CallFrame("replicas", EmptyMap)
    /\ SendAndReturn(Get_(BaseUrl \o "/replicas", [f |-> "json"]), Responses)

unRegisterReplica ==
    \E replica_id \in ReplicaIds :
        /\ CallFrame("unRegisterReplica", [replica_id |-> replica_id])
        /\ SendAndReturn(Post(BaseUrl \o "/unRegisterReplica",
                              [f |-> "json", replicaID |-> replica_id]),
                         Responses)

replicaInfo ==
    \E replica_id \in ReplicaIds :
        /\ CallFrame("replicaInfo", [replica_id |-> replica_id])
        /\ SendAndReturn(Get_(BaseUrl \o "/replicas/" \o replica_id,
                              [f |-> "json"]), Responses)

\* replicaStatus called by the user of the class (lines 453-458)
replicaStatus ==
    /\ CallFrame("replicaStatus", [url |-> JobUrl])
    /\ SendAndReturn(StatusGet(JobUrl), StatusPayloads(TerminalValues) \cup {ErrorBody})

\* synchronizeReplica (lines 422-451) sends nothing and returns None
synchronizeReplica ==
    /\ CallFrame("synchronizeReplica", [replicaID |-> "r1"])
    /\ ReturnLocal([none |-> TRUE])

\* ------------------------------------------- uploads (lines 48-56)
\* the Uploads object made at lines 54-55 is held as the url it is bound to
uploads ==
    /\ CallFrame("uploads", EmptyMap)
    /\ IF "syncEnabled" \notin DOMAIN attrs
       THEN RaiseLocal("AttributeError")
       ELSE IF attrs["syncEnabled"] = TRUE
       THEN ReturnLocal([uploads |-> BaseUrl \o "/uploads"])
       ELSE ReturnLocal([none |-> TRUE])

\* ====================================================== specifications
LayerCalls ==
    \/ FeatureLayer_query
    \/ FeatureLayer_query_related_records
    \/ addFeature
    \/ updateFeature
    \/ deleteFeatures
    \/ applyEdits
    \/ calculate
    \/ addAttachment
    \/ deleteAttachment
    \/ updateAttachment
    \/ listAttachments
    \/ getHTMLPopup

ServiceCalls ==
    \/ FeatureService_query
    \/ FeatureService_query_related_records
    \/ replicas
    \/ unRegisterReplica
    \/ replicaInfo
    \/ replicaStatus
    \/ synchronizeReplica
    \/ uploads

\* one layer object: it takes its metadata or not, then serves a call
NextLayer == LayerLoad \/ LayerCalls

SpecLayer == Init /\ [][NextLayer]_vars

\* every operation of the module; a run works on the descriptor or on a layer
OnService == op \in {"new", "load"}
OnLayer == op \in {"new", "layer_load"}

NextModule ==
    \/ OnService /\ LoadFlags
    \/ OnService /\ CreateReplicaCall
    \/ Settle \/ FirstStatus \/ LoopStatus
    \/ OnService /\ ServiceCalls
    \/ op = "new" /\ LayerLoad
    \/ OnLayer /\ LayerCalls

SpecModule == Init /\ [][NextModule]_vars

\* ------------------------------- one descriptor shared by two callers
\* Each caller runs one of `layers`, `tables`, refresh_service, one
\* statement at a time; the statements of the two callers interleave in any
\* order.  A caller's position is the line it executes next.  The list a
\* read returns is recorded as its content at the return statement (the
\* caller holds a reference to the cached list object).

\* metadata documents the service url answers with in this part
SharedDocs == {d \in Docs : "syncEnabled" \notin DOMAIN d}

\* caller t stands at position p; no statement of lines 31-90 takes a lock
\* or waits for another caller, so the position is the whole guard
At(t, p) == threads[t].pc = p

\* caller t takes a step to r.  `overlapped` records for the checks that a
\* caller's call has run while the other caller was inside a call.
Move(t, r) ==
    LET InCall(u) == threads[u].pc \notin {"idle", "done"}
    IN  threads' =
            [u \in Threads |->
                IF u = t
                THEN [r EXCEPT !.overlapped =
                         @ \/ \E w \in Threads \ {t} : InCall(w)]
                ELSE IF InCall(u)
                THEN [threads[u] EXCEPT !.overlapped = TRUE]
                ELSE threads[u]]

\* the descriptor is loaded by its owner before the callers start
LoadShared ==
    /\ op = "new"
    /\ \A t \in Threads : threads[t].pc = "idle"
    /\ Load(SharedDocs)

\* a caller reads the `layers` or the `tables` property
CallRead(t) ==
    /\ At(t, "idle")
    /\ \E kind \in {"layers", "tables"} :
          Move(t, [threads[t] EXCEPT !.pc = "check", !.kind = kind])
    /\ UNCHANGED <<descVars, sent>>
    /\ UNCHANGED <<pollVars, result, layerAttrs, op, ret, exc>>

\* a caller calls refresh_service()
CallRefresh(t) ==
    /\ At(t, "idle")
    /\ Move(t, [threads[t] EXCEPT !.pc = "l44", !.kind = "refresh_service"])
    /\ UNCHANGED <<descVars, sent>>
    /\ UNCHANGED <<pollVars, result, layerAttrs, op, ret, exc>>

\* lines 81 and 88: if self._layers is None / if self._tables is None
CheckCache(t) ==
    /\ At(t, "check")
    /\ LET cache == IF threads[t].kind = "layers" THEN _layers ELSE _tables
       IN  Move(t, [threads[t] EXCEPT
               !.pc = IF cache = None THEN "l60" ELSE "return"])
    /\ UNCHANGED <<descVars, sent>>
    /\ UNCHANGED <<pollVars, result, layerAttrs, op, ret, exc>>

\* line 60: self._layers = []
ResetLayers(t) ==
    /\ At(t, "l60")
    /\ _layers' = Some(<<>>)
    /\ Move(t, [threads[t] EXCEPT !.pc = "l61"])
    /\ UNCHANGED <<_json_dict, _tables, attrs, sent>>
    /\ UNCHANGED <<pollVars, result, layerAttrs, op, ret, exc>>

\* line 61: self._tables = []
ResetTables(t) ==
    /\ At(t, "l61")
    /\ _tables' = Some(<<>>)
    /\ Move(t, [threads[t] EXCEPT !.pc = "l62"])
    /\ UNCHANGED <<_json_dict, _layers, attrs, sent>>
    /\ UNCHANGED <<pollVars, result, layerAttrs, op, ret, exc>>

\* line 62: if self._json_dict is None
TestJsonDict(t) ==
    /\ At(t, "l62")
    /\ Move(t, [threads[t] EXCEPT
           !.pc = IF _json_dict = None THEN "l36" ELSE "l64"])
    /\ UNCHANGED <<descVars, sent>>
    /\ UNCHANGED <<pollVars, result, layerAttrs, op, ret, exc>>

\* line 36, the call: connection.get(...) sends the metadata GET and the
\* caller waits for the answer
SendMetadataGet(t) ==
    /\ At(t, "l36")
    /\ sent' = Append(sent, MetadataGet)
    /\ Move(t, [threads[t] EXCEPT !.pc = "l36_answer"])
    /\ UNCHANGED descVars
    /\ UNCHANGED <<pollVars, result, layerAttrs, op, ret, exc>>

\* line 36, the return: the answer arrives, or the transport raises
ReceiveMetadata(t) ==
    /\ At(t, "l36_answer")
    /\ \E resp \in Answers(TRUE, SharedDocs) :
          IF resp = TransportError
          THEN Move(t, [threads[t] EXCEPT !.pc = "done",
                                          !.exc = "TransportError"])
          ELSE Move(t, [threads[t] EXCEPT !.pc = "l37",
                                          !.json_dict = Some(resp)])
    /\ UNCHANGED <<descVars, sent>>
    /\ UNCHANGED <<pollVars, result, layerAttrs, op, ret, exc>>

\* line 37: self._json_dict = json_dict
StoreMetadata(t) ==
    /\ At(t, "l37")
    /\ _json_dict' = threads[t].json_dict
    /\ Move(t, [threads[t] EXCEPT !.pc = "l38"])
    /\ UNCHANGED <<_layers, _tables, attrs, sent>>
    /\ UNCHANGED <<pollVars, result, layerAttrs, op, ret, exc>>

\* lines 38-40: the setattr loop, which raises at a read-only property, and
\* the call of self._load_layers() after it
MergeAttributes(t) ==
    /\ At(t, "l38")
    /\ LET resp == Get(threads[t].json_dict)
       IN  \E S \in SetattrPrefixes(resp) :
              IF (DOMAIN resp) \cap PropertyNames # {}
              THEN /\ attrs' = SetAttrs(attrs, resp, S)
                   /\ Move(t, [threads[t] EXCEPT !.pc = "done",
                                                 !.exc = "AttributeError"])
              ELSE /\ attrs' = SetAttrs(attrs, resp, DOMAIN resp)
                   /\ Move(t, [threads[t] EXCEPT !.pc = "l60",
                                                 !.depth = @ + 1])
    /\ UNCHANGED <<_json_dict, _layers, _tables, sent>>
    /\ UNCHANGED <<pollVars, result, layerAttrs, op, ret, exc>>

\* line 64: json_dict = self._json_dict
ReadMetadata(t) ==
    /\ At(t, "l64")
    /\ Move(t, [threads[t] EXCEPT !.pc = "l67", !.json_dict = _json_dict,
                                  !.i = 1])
    /\ UNCHANGED <<descVars, sent>>
    /\ UNCHANGED <<pollVars, result, layerAttrs, op, ret, exc>>

\* lines 65-70: one turn of the loop over json_dict['layers']; append on
\* the None a refresh has left raises AttributeError
AppendLayer(t) ==
    /\ At(t, "l67")
    /\ LET json_dict == Get(threads[t].json_dict)
           entries == IF "layers" \in DOMAIN json_dict
                      THEN json_dict["layers"] ELSE <<>>
           i == threads[t].i
       IN  IF i > Len(entries)
           THEN /\ Move(t, [threads[t] EXCEPT !.pc = "l73", !.i = 1])
                /\ UNCHANGED _layers
           ELSE IF _layers = None
           THEN /\ Move(t, [threads[t] EXCEPT !.pc = "done",
                                              !.exc = "AttributeError"])
                /\ UNCHANGED _layers
           ELSE /\ _layers' = Some(Append(Get(_layers),
                       BaseUrl \o "/" \o ToString(entries[i].id)))
                /\ Move(t, [threads[t] EXCEPT !.i = i + 1])
    /\ UNCHANGED <<_json_dict, _tables, attrs, sent>>
    /\ UNCHANGED <<pollVars, result, layerAttrs, op, ret, exc>>

\* lines 71-76: one turn of the loop over json_dict['tables']; after the
\* last turn _load_layers returns, to line 40 and from there to line 64
\* when it was called by __init, to the property otherwise
AppendTable(t) ==
    /\ At(t, "l73")
    /\ LET json_dict == Get(threads[t].json_dict)
           entries == IF "tables" \in DOMAIN json_dict
                      THEN json_dict["tables"] ELSE <<>>
           i == threads[t].i
       IN  IF i > Len(entries)
           THEN /\ Move(t, IF threads[t].depth > 0
                           THEN [threads[t] EXCEPT !.pc = "l64",
                                                   !.depth = @ - 1]
                           ELSE [threads[t] EXCEPT !.pc = "return"])
                /\ UNCHANGED _tables
           ELSE IF _tables = None
           THEN /\ Move(t, [threads[t] EXCEPT !.pc = "done",
                                              !.exc = "AttributeError"])
                /\ UNCHANGED _tables
           ELSE /\ _tables' = Some(Append(Get(_tables),
                       BaseUrl \o "/" \o ToString(entries[i].id)))
                /\ Move(t, [threads[t] EXCEPT !.i = i + 1])
    /\ UNCHANGED <<_json_dict, _layers, attrs, sent>>
    /\ UNCHANGED <<pollVars, result, layerAttrs, op, ret, exc>>

\* both properties return self._tables
ReturnCache_TablesOnly(t) ==
    /\ At(t, "return")
    /\ Move(t, [threads[t] EXCEPT
           !.pc = "done",
           !.ret = IF _tables = None THEN [none |-> TRUE]
                   ELSE [list |-> Get(_tables)]])
    /\ UNCHANGED <<descVars, sent>>
    /\ UNCHANGED <<pollVars, result, layerAttrs, op, ret, exc>>

\* lines 83 and 90: return self._layers / return self._tables
ReturnCache(t) ==
    /\ At(t, "return")
    /\ LET cache == IF threads[t].kind = "layers" THEN _layers ELSE _tables
       IN  Move(t, [threads[t] EXCEPT
               !.pc = "done",
               !.ret = IF cache = None THEN [none |-> TRUE]
                       ELSE [list |-> Get(cache)]])
    /\ UNCHANGED <<descVars, sent>>
    /\ UNCHANGED <<pollVars, result, layerAttrs, op, ret, exc>>

\* line 44: self._tables = None
ClearTables(t) ==
    /\ At(t, "l44")
    /\ _tables' = None
    /\ Move(t, [threads[t] EXCEPT !.pc = "l45"])
    /\ UNCHANGED <<_json_dict, _layers, attrs, sent>>
    /\ UNCHANGED <<pollVars, result, layerAttrs, op, ret, exc>>

\* line 45: self._layers = None
ClearLayers(t) ==
    /\ At(t, "l45")
    /\ _layers' = None
    /\ Move(t, [threads[t] EXCEPT !.pc = "l46"])
    /\ UNCHANGED <<_json_dict, _tables, attrs, sent>>
    /\ UNCHANGED <<pollVars, result, layerAttrs, op, ret, exc>>

\* line 46: self.__init() lacks its argument and raises TypeError
RefreshRaises(t) ==
    /\ At(t, "l46")
    /\ Move(t, [threads[t] EXCEPT !.pc = "done", !.exc = "TypeError"])
    /\ UNCHANGED <<descVars, sent>>
    /\ UNCHANGED <<pollVars, result, layerAttrs, op, ret, exc>>

NextShared ==
    \/ LoadShared
    \/ \E t \in Threads : CallRead(t)
    \/ \E t \in Threads : CallRefresh(t)
    \/ \E t \in Threads : CheckCache(t)
    \/ \E t \in Threads : ResetLayers(t)
    \/ \E t \in Threads : ResetTables(t)
    \/ \E t \in Threads : TestJsonDict(t)
    \/ \E t \in Threads : SendMetadataGet(t)
    \/ \E t \in Threads : ReceiveMetadata(t)
    \/ \E t \in Threads : StoreMetadata(t)
    \/ \E t \in Threads : MergeAttributes(t)
    \/ \E t \in Threads : ReadMetadata(t)
    \/ \E t \in Threads : AppendLayer(t)
    \/ \E t \in Threads : AppendTable(t)
    \/ \E t \in Threads : ReturnCache(t)
    \/ \E t \in Threads : ClearTables(t)
    \/ \E t \in Threads : ClearLayers(t)
    \/ \E t \in Threads : RefreshRaises(t)

SpecShared == Init /\ [][NextShared]_vars

\* ================================================================ claims
IsCreateReplicaCall == op = "createReplica" /\ args # None
Waiting == IsCreateReplicaCall /\ Get(args).async /\ Get(args).wait
LastStatus == Lower(Get(status)["status"])
HasStatus == status # None /\ "status" \in DOMAIN Get(status)
Returned == pc = "idle" /\ exc = "none"

\* C1: with async and wait, as soon as any status answer (the first one
\* included) reports "failed" in any letter case, the call has returned that
\* payload and asks for no further status.
C1_FailedIsTerminal ==
    (Waiting /\ HasStatus /\ LastStatus = "failed")
        => (Returned /\ ret = [json |-> Get(status)])

\* C2: with async, wait and no output directory, when the status endpoint
\* answers k non-terminal statuses and then "completed", the call has sent one
\* POST to /createReplica and then exactly k+1 GETs to {statusUrl}/status and
\* has returned the completed payload.
C2_ExactPolls ==
    (/\ Waiting
     /\ Get(args).out_path = None
     /\ statusLog # <<>>
     /\ \A i \in 1..(Len(statusLog) - 1) : statusLog[i] \in RunningValues
     /\ Lower(statusLog[Len(statusLog)]) = "completed")
        => /\ Returned
           /\ ret = [json |-> Get(status)]
           /\ Get(status)["status"] = statusLog[Len(statusLog)]
           /\ sent = <<[method |-> "POST", url |-> BaseUrl \o "/createReplica",
                        postdata |-> ReplicaParams(Get(args))]>>
                     \o [i \in 1..Len(statusLog) |->
                            [method |-> "GET", url |-> JobUrl \o "/status",
                             params |-> [f |-> "json"]]]

C2_Witness ==
    /\ Waiting /\ Returned
    /\ Get(args).out_path = None
    /\ statusLog = <<"running", "running", "completed">>
    /\ Len(sent) = 4
    /\ ret = [json |-> Get(status)]

\* C3: with async and wait, once every answer of the status endpoint is
\* terminal ("completed" or "failed", in any letter case), the call
\* eventually returns.
C3_WaitTerminates ==
    (pc # "idle" /\ jobSettled) ~> (Returned /\ HasStatus)

C3_Witness ==
    /\ Waiting /\ Returned /\ jobSettled
    /\ Len(statusLog) >= 2
    /\ \A i \in 1..Len(statusLog) : Lower(statusLog[i]) = "failed"

\* C4: the poller never gives up: while the latest status answer is neither
\* "completed" nor "failed" the next thing the client does is another status
\* request, and a waiting call that returns has received a terminal status.
C4_NeverGivesUp ==
    /\ []((Waiting /\ Returned /\ sent # <<>>)
            => (HasStatus /\ LastStatus \in {"completed", "failed"}))
    /\ [][(/\ pc = "loop_status"
           /\ LastStatus \notin {"completed", "failed"}
           /\ jobSettled' = jobSettled)
            => /\ Len(sent') > Len(sent)
               /\ sent'[Len(sent) + 1] =
                      [method |-> "GET", url |-> JobUrl \o "/status",
                       params |-> [f |-> "json"]]
               /\ Len(statusLog') = Len(statusLog) + 1]_vars

C4_Witness ==
    /\ Waiting /\ Returned
    /\ Len(statusLog) = MaxRunning + 1
    /\ \A i \in 1..MaxRunning : statusLog[i] \in RunningValues
    /\ LastStatus \in {"completed", "failed"}

\* the gate of createReplica, read off the instance attributes
AttrsGate ==
    /\ "syncEnabled" \in DOMAIN attrs
    /\ "capabilities" \in DOMAIN attrs
    /\ attrs["syncEnabled"] = FALSE
    /\ \A i \in 1..Len(attrs["capabilities"]) : attrs["capabilities"][i] # "Extract"

UnsupportedFormat ==
    Lower(Get(args).dataFormat) \notin {"filegdb", "json", "sqlite", "shapefile"}

\* C5 as claimed: a dataFormat outside {filegdb, json, sqlite, shapefile}
\* makes createReplica raise and send nothing, whatever the descriptor says.
C5_AlwaysRaises ==
    (IsCreateReplicaCall /\ UnsupportedFormat)
        => (exc = "Exception" /\ sent = <<>>)

\* C5 amended: a dataFormat outside {filegdb, json, sqlite, shapefile} never
\* reaches the server; createReplica raises, except when the capability gate
\* applies (attribute syncEnabled false and capabilities without "Extract"),
\* where it returns nothing without raising.
C5_RaisesUnlessGated ==
    (IsCreateReplicaCall /\ UnsupportedFormat)
        => /\ sent = <<>>
           /\ pc = "idle"
           /\ IF AttrsGate THEN exc = "none" /\ ret = [none |-> TRUE]
              ELSE exc = "Exception"

C5_Witness ==
    /\ IsCreateReplicaCall
    /\ Get(args).dataFormat = "XML"
    /\ ~AttrsGate
    /\ "syncEnabled" \in DOMAIN attrs
    /\ exc = "Exception"
    /\ sent = <<>>

\* the cached metadata declares sync disabled and capabilities without Extract
MetadataGate ==
    /\ _json_dict # None
    /\ "syncEnabled" \in DOMAIN Get(_json_dict)
    /\ "capabilities" \in DOMAIN Get(_json_dict)
    /\ Get(_json_dict)["syncEnabled"] = FALSE
    /\ \A i \in 1..Len(Get(_json_dict)["capabilities"]) :
           Get(_json_dict)["capabilities"][i] # "Extract"

\* C6: when the descriptor's metadata declares syncEnabled false and
\* capabilities without "Extract", createReplica returns nothing and sends no
\* request, whatever its arguments.
C6_CapabilityGate ==
    (IsCreateReplicaCall /\ MetadataGate)
        => (sent = <<>> /\ Returned /\ ret = [none |-> TRUE])

\* C7: once metadata is there, `layers` returns one child per entry of the
\* metadata's `layers` array, with url {service_url}/{id}, in server order and
\* without duplicates, and `tables` does the same for `tables`; also when the
\* metadata is fetched by that very access.
C7_Discovery ==
    /\ (op = "layers" /\ _json_dict # None)
          => (exc = "none"
              /\ ret = [list |-> Children(Get(_json_dict), "layers")])
    /\ (op = "tables" /\ _json_dict # None)
          => (exc = "none"
              /\ ret = [list |-> Children(Get(_json_dict), "tables")])

\* C8: once the layers or tables list is populated, a read of `layers` or
\* `tables` sends no request, leaves both lists as they are and returns the
\* cached list; a read rebuilds a list only when it was absent.
C8_CachedReads ==
    [][(op' \in {"layers", "tables"} /\ (_layers # None \/ _tables # None))
        => /\ sent' = <<>>
           /\ exc' = "none"
           /\ _layers' = _layers /\ _tables' = _tables
           /\ _json_dict' = _json_dict
           /\ ret' = [list |-> Get(IF op' = "layers" THEN _layers ELSE _tables)]]_vars

C8_Witness ==
    /\ op = "layers"
    /\ _json_dict = None
    /\ _layers = Some(<<>>)
    /\ exc = "none"
    /\ sent = <<>>
    /\ ret = [list |-> <<>>]

\* C9: refresh clears layers, tables and metadata and loads again: when it
\* has returned, one metadata GET has been sent and the cached metadata and
\* lists are those of the new answer.
C9_RefreshReloads ==
    op = "refresh_service"
        => /\ exc = "none"
           /\ sent = <<MetadataGet>>
           /\ _json_dict # None
           /\ _layers = Some(Children(Get(_json_dict), "layers"))
           /\ _tables = Some(Children(Get(_json_dict), "tables"))

\* C10: load sends one GET of the service url with f=json and, when that is
\* answered, every key of the answer is an attribute of the descriptor with
\* the server's value, and the layer and table lists are discovered.
C10_LoadMergesAllKeys ==
    (op = "load" /\ exc # "TransportError")
        => /\ sent = <<MetadataGet>>
           /\ exc = "none"
           /\ \A k \in DOMAIN Get(_json_dict) :
                  k \in DOMAIN attrs /\ attrs[k] = Get(_json_dict)[k]
           /\ _layers = Some(Children(Get(_json_dict), "layers"))
           /\ _tables = Some(Children(Get(_json_dict), "tables"))


\* ---------------------------------------------------------------- C11
IsLayerQuery == op = "FeatureLayer.query"

\* C11: the layer-level query sends exactly one request, a POST to
\* {layer_url}/query; it raises ValueError exactly when the decoded answer has
\* a top-level `error` key, and otherwise returns the answer as it came.
C11_QueryRaisesOnError ==
    IsLayerQuery =>
        /\ Len(sent) = 1
        /\ sent[1].method = "POST"
        /\ sent[1].url = LayerUrl \o "/query"
        /\ (exc # "none") <=> ("error" \in DOMAIN Get(result))
        /\ exc \in {"none", "ValueError"}
        /\ exc = "none" => ret = [json |-> Get(result)]
        /\ exc # "none" => ret = [none |-> TRUE]

\* a query answered with an error body has raised
C11_Witness ==
    /\ IsLayerQuery
    /\ "error" \in DOMAIN Get(result)
    /\ exc = "ValueError"
    /\ Len(sent) = 1


\* ---------------------------------------------------------------- C12
\* the call's arguments with the single mapping in `field` put in a list
AsListOfOne(field) == [Get(args) EXCEPT ![field] = [list |-> <<@>>]]

\* C12: addFeature and updateFeature called with a single mapping m send the
\* request they send for the list [m] and otherwise equal arguments (same
\* endpoint, same parameters, same serialized `features`); calculate does so
\* for a single calcExpression mapping.
C12_SingleRecordNormalised ==
    /\ (op = "addFeature" /\ IsDict(Get(args).features)) =>
           sent = <<Post(LayerUrl \o "/addFeatures",
                         addFeatureParams(AsListOfOne("features")))>>
    /\ (op = "updateFeature" /\ IsDict(Get(args).features)) =>
           sent = <<Post(LayerUrl \o "/updateFeatures",
                         updateFeatureParams(AsListOfOne("features")))>>
    /\ (op = "calculate" /\ IsDict(Get(args).calcExpression)) =>
           sent = <<Post(LayerUrl \o "/calculate",
                         calculateParams(AsListOfOne("calcExpression")))>>

\* updateFeature with the single record 1 has sent the list of that record
C12_Witness ==
    /\ op = "updateFeature"
    /\ Get(args).features = Feature(1, "a", <<"NAME", "OBJECTID">>)
    /\ Len(sent) = 1
    /\ sent[1].postdata["features"] = "[{\"NAME\": \"a\", \"OBJECTID\": 1}]"

\* ---------------------------------------------------------------- C13
\* C13: addFeature and updateFeature given `features` that is neither a
\* mapping nor a list raise an input error and send no request.
C13_InvalidFeaturesRejected ==
    (/\ op \in {"addFeature", "updateFeature"}
     /\ ~IsDict(Get(args).features)
     /\ ~IsList(Get(args).features)) =>
        /\ exc = "ValueError"
        /\ sent = <<>>

\* addFeature given a string has raised
C13_Witness ==
    /\ op = "addFeature"
    /\ IsStr(Get(args).features)
    /\ exc = "ValueError"
    /\ sent = <<>>

\* ---------------------------------------------------------------- C14
\* C14: addAttachment sends a request exactly when the layer declares
\* hasAttachments true: then one multipart POST to
\* {layer_url}/{oid}/addAttachment whose decoded answer is returned; when
\* hasAttachments is false or not declared, no request, no exception and the
\* explanatory string.
C14_AttachmentGate ==
    op = "addAttachment" =>
        /\ exc = "none"
        /\ IF AttachmentsGate
           THEN /\ Len(sent) = 1
                /\ sent[1].method = "POST"
                /\ sent[1].url = FeatureUrl(Get(args).oid, "addAttachment")
                /\ "files" \in DOMAIN sent[1]
                /\ ret = [json |-> Get(result)]
           ELSE /\ sent = <<>>
                /\ ret = NotSupported


\* ---------------------------------------------------------------- C15
\* the flag as the object holds it
SyncEnabledTrue == "syncEnabled" \in DOMAIN attrs /\ attrs["syncEnabled"] = TRUE

\* C15: reading `uploads` never raises and never sends a request; it gives
\* the upload collaborator bound to {service_url}/uploads when the flag
\* syncEnabled is true and null in every other case (flag false, flag not
\* declared, metadata not loaded).
C15_UploadsGate ==
    op = "uploads" =>
        /\ exc = "none"
        /\ sent = <<>>
        /\ ret = IF SyncEnabledTrue THEN [uploads |-> BaseUrl \o "/uploads"]
                 ELSE [none |-> TRUE]

\* ---------------------------------------------------------------- C16
GeometryCall ==
    /\ op \in {"FeatureService.query", "FeatureLayer.query", "deleteFeatures"}
    /\ Len(sent) = 1

\* the parameters a request carries
ParamsOf(req) ==
    IF "params" \in DOMAIN req THEN req.params
    ELSE IF "postdata" \in DOMAIN req THEN req.postdata
    ELSE EmptyMap

\* the name the spatial relation is sent under
RelationKey == IF op = "FeatureLayer.query" THEN "spatialRelationship" ELSE "spatialRel"
GeometryKeys == {"geometry", "geometryType", "inSR", RelationKey}

\* the request holds the four values of the filter mapping gf
CopiedFrom(gf) ==
    LET p == ParamsOf(sent[1])
    IN  /\ GeometryKeys \subseteq DOMAIN p
        /\ p["geometry"] = gf["geometry"]
        /\ p["geometryType"] = gf["geometryType"]
        /\ p["inSR"] = gf["inSR"]
        /\ p[RelationKey] = gf["spatialRel"]

\* C16: a geometry filter that is given is copied into the request
\* as geometry, geometryType, inSR and the spatial relation, and when none is
\* given the request has none of these keys, whatever the other arguments.
C16_FilterCopiedOrAbsent ==
    GeometryCall =>
        LET g == Get(args).geometryFilter
        IN  IF g # None
            THEN /\ GeometryKeys \subseteq DOMAIN ParamsOf(sent[1])
                 /\ IsDict(Get(g))
                 /\ CopiedFrom(Get(g).dict)
            ELSE GeometryKeys \cap DOMAIN ParamsOf(sent[1]) = {}

\* ---------------------------------------------------------------- C17
HasFormatJson(req) ==
    "f" \in DOMAIN ParamsOf(req) /\ ParamsOf(req)["f"] = "json"

\* C17 as stated: every request of every operation carries f = json.
C17_EveryRequestFormatJson ==
    \A i \in 1..Len(sent) : HasFormatJson(sent[i])

\* the download request of createReplica (line 414)
IsDownload(req) == "out_folder" \in DOMAIN req

\* the caller's own value of f: an extra pair of the layer-level query, or a
\* key of the geometry filter createReplica merges into its parameters
CallerFormat ==
    IF op = "FeatureLayer.query" /\ "f" \in DOMAIN Get(args).kwargs
    THEN Some(Get(args).kwargs["f"])
    ELSE IF /\ IsCreateReplicaCall
            /\ Get(args).geometryFilter # None
            /\ "f" \in DOMAIN Get(Get(args).geometryFilter)
    THEN Some(Get(Get(args).geometryFilter)["f"])
    ELSE None

\* C17, amended: every request carries the parameter f, except the download
\* GET of createReplica, which carries no parameters; f is json unless the
\* caller passed a value of its own, which is sent in the POST of the
\* layer-level query or of createReplica instead.
C17_FormatJsonUnlessOverridden ==
    \A i \in 1..Len(sent) :
        IF IsDownload(sent[i])
        THEN ParamsOf(sent[i]) = EmptyMap
        ELSE /\ "f" \in DOMAIN ParamsOf(sent[i])
             /\ IF CallerFormat # None /\ sent[i].method = "POST"
                THEN ParamsOf(sent[i])["f"] = Get(CallerFormat)
                ELSE ParamsOf(sent[i])["f"] = "json"

\* a waiting createReplica has sent its POST and status requests with
\* f = json and the download request without parameters
C17_Witness ==
    /\ Waiting
    /\ Returned
    /\ Len(sent) >= 3
    /\ IsDownload(sent[Len(sent)])
    /\ \A i \in 1..(Len(sent) - 1) : HasFormatJson(sent[i])


\* ---------------------------------------------------------------- C18
\* a createReplica call that sent its POST and has returned
ReplicaReturned == IsCreateReplicaCall /\ Returned /\ Len(sent) >= 1

\* out_path names a directory
DirectoryGiven ==
    Get(args).out_path # None /\ IsDir(Get(Get(args).out_path))

HasDownloadUrl(r) == "resultUrl" \in DOMAIN r \/ "responseUrl" \in DOMAIN r
PreferredUrl(r) ==
    IF "resultUrl" \in DOMAIN r THEN r["resultUrl"] ELSE r["responseUrl"]

Downloads == {i \in 1..Len(sent) : IsDownload(sent[i])}

\* what the call does with the response r it ended with: one download, sent
\* last, whose outcome is returned, or r itself and no download
DownloadStep(r) ==
    IF HasDownloadUrl(r)
    THEN /\ Cardinality(Downloads) = 1
         /\ sent[Len(sent)] = DownloadGet(PreferredUrl(r), Get(Get(args).out_path))
         /\ ret = [download |-> PreferredUrl(r)]
    ELSE /\ Downloads = {}
         /\ ret = [json |-> r]

\* the POST response, or the last status payload of a waiting call
FinalResponse == IF Waiting THEN Get(status) ELSE Get(result)

\* C18 as stated: with an output directory, a final response (the POST
\* response, or the terminal status payload of a waiting call) that holds
\* resultUrl or responseUrl is followed by exactly one GET of that url
\* (resultUrl first) whose outcome is returned; without either key the JSON
\* is returned and nothing more is sent.
C18_DownloadStep ==
    (ReplicaReturned /\ DirectoryGiven) => DownloadStep(FinalResponse)

\* C18, amended: the same for the POST response and for a completed status
\* payload; a failed status payload ends the call from inside the loop and
\* is returned as JSON without a download, whatever urls it holds.
C18_DownloadUnlessFailed ==
    (ReplicaReturned /\ DirectoryGiven) =>
        IF result # None
        THEN /\ Waiting => LastStatus = "completed"
             /\ DownloadStep(Get(result))
        ELSE /\ Waiting
             /\ LastStatus = "failed"
             /\ Downloads = {}
             /\ ret = [json |-> Get(status)]

\* a waiting call whose completed payload holds both urls has downloaded
\* resultUrl
C18_Witness ==
    /\ ReplicaReturned
    /\ Waiting
    /\ DirectoryGiven
    /\ result # None
    /\ "resultUrl" \in DOMAIN Get(result)
    /\ "responseUrl" \in DOMAIN Get(result)
    /\ ret = [download |-> ResultUrl]
    /\ Cardinality(Downloads) = 1


\* ---------------------------------------------------------------- C19
\* the operations the claim is about, once the call is over
PassThroughCall ==
    /\ pc = "idle"
    /\ args # None
    /\ op \notin {"FeatureLayer.query", "new", "load", "layer_load"}

\* the decoded responses of the call that hold an `error` key
ErrorAnswers ==
    {o \in {exportJob, status, result} : o # None /\ "error" \in DOMAIN Get(o)}

\* C19: in every operation other than the layer-level query, a decoded
\* response with an `error` key is returned to the caller as it is and
\* nothing is raised.
C19_ErrorPassThrough ==
    PassThroughCall =>
        \A o \in ErrorAnswers : exc = "none" /\ ret = [json |-> Get(o)]

\* ---------------------------------------------------------------- C20
\* The cached metadata mapping is _json_dict; line 37 assigns the decoded
\* document whole, so it is absent or complete in every state.
\* C20: between operations the cached metadata is absent or fully populated,
\* and the cached layers/tables lists are present only when it is populated;
\* a metadata request that fails with a transport error is sent once and
\* leaves the descriptor without cached metadata and without cached lists, so
\* that a read of `layers` without metadata sends the metadata request
\* instead of giving an empty list.
C20_CacheConsistent ==
    /\ (_layers # None \/ _tables # None) => _json_dict # None
    /\ (exc = "TransportError" /\ _json_dict = None) =>
           /\ Len(sent) = 1
           /\ _layers = None
           /\ _tables = None
    /\ (op = "layers" /\ exc = "none" /\ _json_dict = None) => sent # <<>>



\* ---------------------------------------------------------------- C21
\* the POST of a createReplica call, when one was sent
ReplicaPostSent == IsCreateReplicaCall /\ Len(sent) >= 1

\* C21: every POST to /createReplica carries dataFormat with one of
\* the values filegdb, json, sqlite, shapefile, for every combination of
\* arguments, a merged geometryFilter mapping included.
C21_PostedFormatValid ==
    ReplicaPostSent =>
        /\ sent[1].url = BaseUrl \o "/createReplica"
        /\ "dataFormat" \in DOMAIN sent[1].postdata
        /\ sent[1].postdata["dataFormat"] \in dataformat



\* ---------------------------------------------------------------- C22
RelatedRecordsCall ==
    op \in {"FeatureService.query_related_records",
            "FeatureLayer.query_related_records"}

Supplied(name) == Get(args)[name] # None

\* the value sent for a spatial reference argument
SpatialRefSent(o) ==
    IF IsDict(Get(o)) THEN Get(o).dict ELSE as_dict(Get(o))

\* the keys every request of the operation carries
RequiredKeys ==
    IF op = "FeatureService.query"
    THEN {"f", "returnGeometry", "returnIdsOnly", "returnCountOnly",
          "returnZ", "returnM"}
    ELSE {"f", "objectIds", "relationshipId", "outFields", "returnGeometry",
          "returnM", "returnZ"}

\* the optional keys of the operation
OptionalKeys ==
    IF op = "FeatureService.query"
    THEN {"layerDefs", "outSR", "time", "geometry", "geometryType",
          "spatialRel", "inSR"}
    ELSE {"gdbVersion", "definitionExpression", "outSR",
          "maxAllowableOffset", "geometryPrecision"}

\* C22: in the requests of the service-level query and of both
\* queryRelatedRecords operations an optional key is present only if the
\* caller supplied a value other than None for it, and then it carries that
\* value: no optional key is sent as null.
C22_OptionalOmittedNeverNull ==
    /\ (op = "FeatureService.query" \/ RelatedRecordsCall) =>
           /\ Len(sent) = 1
           /\ DOMAIN ParamsOf(sent[1]) \subseteq RequiredKeys \cup OptionalKeys
    /\ RelatedRecordsCall =>
           LET p == ParamsOf(sent[1])
           IN  /\ \A k \in {"gdbVersion", "definitionExpression",
                            "maxAllowableOffset", "geometryPrecision"} :
                      k \in DOMAIN p => Supplied(k) /\ p[k] = Get(Get(args)[k])
               /\ "outSR" \in DOMAIN p =>
                      /\ Supplied("outWKID")
                      /\ p["outSR"] = SpatialRefSent(Get(args).outWKID)
    /\ op = "FeatureService.query" =>
           LET p == ParamsOf(sent[1])
           IN  /\ "layerDefs" \in DOMAIN p =>
                      /\ Supplied("layerDefsFilter")
                      /\ p["layerDefs"] = Get(Get(args).layerDefsFilter).dict
               /\ "time" \in DOMAIN p =>
                      /\ Supplied("timeFilter")
                      /\ p["time"] = Get(Get(args).timeFilter).dict
               /\ "outSR" \in DOMAIN p =>
                      /\ Supplied("outSR")
                      /\ p["outSR"] = SpatialRefSent(Get(args).outSR)
               /\ GeometryKeys \cap DOMAIN p # {} =>
                      /\ Supplied("geometryFilter")
                      /\ CopiedFrom(Get(Get(args).geometryFilter).dict)

\* a queryRelatedRecords call given gdbVersion and a SpatialReference, and
\* no definitionExpression, has sent the first two and not the third
C22_Witness ==
    /\ op = "FeatureLayer.query_related_records"
    /\ Supplied("gdbVersion")
    /\ ~Supplied("definitionExpression")
    /\ Supplied("outWKID")
    /\ IsSpatialReference(Get(Get(args).outWKID))
    /\ Len(sent) = 1
    /\ sent[1].params["gdbVersion"] = "v1"
    /\ sent[1].params["outSR"] = [wkid |-> 102100]
    /\ "definitionExpression" \notin DOMAIN sent[1].params


\* ---------------------------------------------------------------- C23
\* the selector keys a deleteFeatures call has to send: the selectors that
\* are neither None nor empty, and the four keys of a filter mapping
NonEmptySelector(name) ==
    Get(args)[name] # None /\ Get(Get(args)[name]) # ""

SelectorKeys ==
    (IF NonEmptySelector("objectIds") THEN {"objectIds"} ELSE {})
    \cup (IF NonEmptySelector("where") THEN {"where"} ELSE {})
    \cup (IF Get(args).geometryFilter # None /\ IsDict(Get(Get(args).geometryFilter))
          THEN {"geometry", "geometryType", "inSR", "spatialRel"} ELSE {})

\* the call's arguments with gdbVersion and rollbackOnFailure at other values
OtherVersionAndRollback ==
    [Get(args) EXCEPT !.gdbVersion = IF @ = None THEN Some("v2") ELSE None,
                      !.rollbackOnFailure = ~@]

\* C23: deleteFeatures validates nothing: it always sends one POST to
\* {layer_url}/deleteFeatures whose parameters are f and the selectors that
\* are not empty, also when every selector is empty; the request is the one
\* sent for any other gdbVersion and rollbackOnFailure.
C23_DeleteSendsSelectorsOnly ==
    op = "deleteFeatures" =>
        /\ exc = "none"
        /\ Len(sent) = 1
        /\ sent[1].method = "POST"
        /\ sent[1].url = LayerUrl \o "/deleteFeatures"
        /\ DOMAIN sent[1].postdata = {"f"} \cup SelectorKeys
        /\ "objectIds" \in SelectorKeys =>
               sent[1].postdata["objectIds"] = Get(Get(args).objectIds)
        /\ "where" \in SelectorKeys =>
               sent[1].postdata["where"] = Get(Get(args).where)
        /\ sent = <<Post(LayerUrl \o "/deleteFeatures",
                         deleteFeaturesParams(OtherVersionAndRollback))>>

\* a call with every selector empty, a gdbVersion and rollbackOnFailure
\* false has sent f alone
C23_Witness ==
    /\ op = "deleteFeatures"
    /\ Get(args).objectIds = Some("")
    /\ Get(args).where = Some("")
    /\ Get(args).geometryFilter = None
    /\ Get(args).gdbVersion = Some("v1")
    /\ Get(args).rollbackOnFailure = FALSE
    /\ sent = <<Post(LayerUrl \o "/deleteFeatures", [f |-> "json"])>>


\* ---------------------------------------------------------------- C24
\* the call's arguments with the empty list for each add/update argument
\* that was left out
WithEmptyLists ==
    [Get(args) EXCEPT
        !.addFeatures = IF @ = None THEN Some([list |-> <<>>]) ELSE @,
        !.updateFeatures = IF @ = None THEN Some([list |-> <<>>]) ELSE @]

\* the list given for an add/update argument is not empty
NonEmptyList(name) ==
    Get(args)[name] # None /\ Len(Get(Get(args)[name]).list) > 0

\* C24: applyEdits always sends one POST to {layer_url}/applyEdits and does
\* not raise; `deletes` is in the request exactly when deleteFeatures is a
\* string (a list of ids is left out), `adds` and `updates` only when their
\* list is not empty, and add/update arguments left out give the request
\* that empty lists give.
C24_ApplyEditsShape ==
    op = "applyEdits" =>
        /\ exc = "none"
        /\ Len(sent) = 1
        /\ sent[1].method = "POST"
        /\ sent[1].url = LayerUrl \o "/applyEdits"
        /\ "deletes" \in DOMAIN sent[1].postdata
               <=> (/\ Get(args).deleteFeatures # None
                    /\ "str" \in DOMAIN Get(Get(args).deleteFeatures))
        /\ "adds" \in DOMAIN sent[1].postdata => NonEmptyList("addFeatures")
        /\ "updates" \in DOMAIN sent[1].postdata => NonEmptyList("updateFeatures")
        /\ sent = <<Post(LayerUrl \o "/applyEdits",
                         applyEditsParams(WithEmptyLists))>>

\* a call without adds, with one record to update and a list of ids to
\* delete has sent the update alone
C24_Witness ==
    /\ op = "applyEdits"
    /\ Get(args).addFeatures = None
    /\ Get(args).updateFeatures =
           Some([list |-> <<Feature(1, "a", <<"NAME", "OBJECTID">>)>>])
    /\ Get(args).deleteFeatures = Some([list |-> <<1, 2>>])
    /\ Len(sent) = 1
    /\ sent[1].postdata["updates"] = "[{\"NAME\": \"a\", \"OBJECTID\": 1}]"
    /\ "adds" \notin DOMAIN sent[1].postdata
    /\ "deletes" \notin DOMAIN sent[1].postdata


\* ---------------------------------------------------------------- C25
SqlFormats == {"standard", "native"}

\* C25: calculate does not raise on sqlFormat and posts once to
\* {layer_url}/calculate with a sqlFormat parameter that is standard or
\* native: a value equal to one of the two up to case is sent in lower
\* case, and any other value is replaced by "standard".
C25_SqlFormatCoerced ==
    op = "calculate" =>
        /\ exc = "none"
        /\ Len(sent) = 1
        /\ sent[1].method = "POST"
        /\ sent[1].url = LayerUrl \o "/calculate"
        /\ "sqlFormat" \in DOMAIN sent[1].postdata
        /\ sent[1].postdata["sqlFormat"] \in SqlFormats
        /\ sent[1].postdata["sqlFormat"] =
               IF Lower(Get(args).sqlFormat) \in SqlFormats
               THEN Lower(Get(args).sqlFormat)
               ELSE "standard"

\* a call with a value outside the two has sent "standard" in its place
C25_Witness ==
    /\ op = "calculate"
    /\ exc = "none"
    /\ Len(sent) = 1
    /\ Get(args).sqlFormat = "sql92"
    /\ sent[1].postdata["sqlFormat"] = "standard"


\* ---------------------------------------------------------------- C26
\* caller t has read `layers` or `tables` and got a list
ReadList(t) ==
    /\ threads[t].pc = "done"
    /\ threads[t].kind \in {"layers", "tables"}
    /\ threads[t].exc = "none"
    /\ "list" \in DOMAIN threads[t].ret

\* the list caller t got is the child list of the metadata the descriptor
\* holds: every entry of the array once, in the array's order
CompleteRead(t) ==
    /\ _json_dict # None
    /\ threads[t].ret.list = Children(Get(_json_dict), threads[t].kind)

\* the other caller's call has failed in discovery, which leaves the lists
\* of lines 60-61 behind (C7, C20)
OtherFailed(t) ==
    \E u \in Threads \ {t} :
        /\ threads[u].pc = "done"
        /\ threads[u].exc \in {"AttributeError", "TransportError"}

\* C26: the cache is shared without synchronization: a read returns a list
\* that is not the complete, duplicate-free child list of the current
\* metadata in interleavings where the two callers' calls overlap (the
\* witness), and the overlap is what it takes: a read whose call ran while
\* the other caller was outside any call, and after no failed discovery,
\* returns the complete list.
C26_IncompleteReadNeedsOverlap ==
    \A t \in Threads :
        (ReadList(t) /\ ~CompleteRead(t)) =>
            (threads[t].overlapped \/ OtherFailed(t))

\* a read of `layers` has returned a partially built list, a proper
\* non-empty prefix of the children of the current metadata, while the
\* other caller, whose call has not failed, is in the loop that builds it
C26_Witness ==
    \E t \in Threads : \E u \in Threads \ {t} :
        /\ ReadList(t)
        /\ threads[t].kind = "layers"
        /\ threads[t].overlapped
        /\ _json_dict # None
        /\ threads[t].ret.list # <<>>
        /\ Len(threads[t].ret.list) < Len(Children(Get(_json_dict), "layers"))
        /\ threads[u].pc = "l67"
        /\ threads[u].kind \in {"layers", "tables"}
        /\ threads[u].exc = "none"

====
